---- MODULE Spec2Model ----
(***************************************************************************)
(* pgdatahub (src/main.py): a one-shot ETL pipeline.  main() discovers     *)
(* data files, stages them, loads them into a dict of DataFrames, cleans   *)
(* the dict keys and the column headers, derives SQL schemas, writes CSVs, *)
(* bulk-loads them in one PostgreSQL transaction and archives the CSVs.    *)
(*                                                                         *)
(* A Python str is modelled as a sequence of characters; a character is a  *)
(* one-character TLA+ string, except that a non-ASCII code point is        *)
(* written "U+XXXX" and an SQL type name is kept as one token.  A Python   *)
(* dict is modelled as a sequence of [k, v] records with distinct keys,    *)
(* in insertion order.                                                     *)
(***************************************************************************)
EXTENDS Integers, Sequences, FiniteSets, TLC

\* ------------------------------------------------------------- bounds
MaxLen == 4      \* longest text handed to clean_text on its own
MaxFiles == 2    \* most entries in the working directory, configuration files apart
MaxCols == 2     \* most columns of a table handed to process_dataframes
MaxTables == 2   \* most tables of a schema mapping handed to import_to_postgres

\* ------------------------------------------------------------ strings
UPPER == <<"A","B","C","D","E","F","G","H","I","J","K","L","M",
           "N","O","P","Q","R","S","T","U","V","W","X","Y","Z">>
LOWER == <<"a","b","c","d","e","f","g","h","i","j","k","l","m",
           "n","o","p","q","r","s","t","u","v","w","x","y","z">>
DIGITS == {"0","1","2","3","4","5","6","7","8","9"}

Range(s) == {s[i] : i \in DOMAIN s}

\* str.lower(), character by character
LowerChar(c) ==
    IF \E i \in DOMAIN UPPER : UPPER[i] = c
    THEN LOWER[CHOOSE i \in DOMAIN UPPER : UPPER[i] = c]
    ELSE c

lower(s) == [i \in DOMAIN s |-> LowerChar(s[i])]

\* str.startswith / str.endswith / "x in s" for a one-character x
startswith(s, p) == Len(s) >= Len(p) /\ SubSeq(s, 1, Len(p)) = p
endswith(s, p) == Len(s) >= Len(p) /\ SubSeq(s, Len(s) - Len(p) + 1, Len(s)) = p
contains(s, c) == c \in Range(s)

\* s.split(c)[0]: the part of s before its first c (s itself when it has none)
split_first(s, c) ==
    IF contains(s, c)
    THEN SubSeq(s, 1, (CHOOSE i \in DOMAIN s :
                          s[i] = c /\ \A j \in 1..(i - 1) : s[j] # c) - 1)
    ELSE s

\* s.replace(a, b) for one-character a and b
replace(s, a, b) == [i \in DOMAIN s |-> IF s[i] = a THEN b ELSE s[i]]

\* s.strip(c)
RECURSIVE lstrip(_, _)
lstrip(s, c) == IF s # <<>> /\ Head(s) = c THEN lstrip(Tail(s), c) ELSE s
RECURSIVE rstrip(_, _)
rstrip(s, c) ==
    IF s # <<>> /\ s[Len(s)] = c THEN rstrip(SubSeq(s, 1, Len(s) - 1), c) ELSE s
strip(s, c) == rstrip(lstrip(s, c), c)

\* ------------------------------------------------- src/main.py:16
\* str.maketrans of the twelve Turkish letters
TR_MAPPING ==
    [c \in {"U+0131","U+0130","U+011F","U+011E","U+00FC","U+00DC",
            "U+015F","U+015E","U+00F6","U+00D6","U+00E7","U+00C7"} |->
        CASE c = "U+0131" -> "i" [] c = "U+0130" -> "I"
          [] c = "U+011F" -> "g" [] c = "U+011E" -> "G"
          [] c = "U+00FC" -> "u" [] c = "U+00DC" -> "U"
          [] c = "U+015F" -> "s" [] c = "U+015E" -> "S"
          [] c = "U+00F6" -> "o" [] c = "U+00D6" -> "O"
          [] c = "U+00E7" -> "c" [] c = "U+00C7" -> "C"]

translate(s) == [i \in DOMAIN s |-> IF s[i] \in DOMAIN TR_MAPPING THEN TR_MAPPING[s[i]] ELSE s[i]]

\* the character class [a-zA-Z0-9_] of the regular expression at line 229
IsWordChar(c) == c \in Range(UPPER) \cup Range(LOWER) \cup DIGITS \cup {"_"}

\* re.sub(r"[^a-zA-Z0-9_]", "_", text)
sub_special(s) == [i \in DOMAIN s |-> IF IsWordChar(s[i]) THEN s[i] ELSE "_"]

\* re.sub(r"_+", "_", text)
RECURSIVE sub_underscores(_)
sub_underscores(s) ==
    IF Len(s) <= 1 THEN s
    ELSE IF s[1] = "_" /\ s[2] = "_" THEN sub_underscores(Tail(s))
    ELSE <<s[1]>> \o sub_underscores(Tail(s))

col_ == <<"c","o","l","_">>

\* clean_text with the underscore runs left in place
clean_text_no_collapse(text) ==
    LET base_name == IF contains(text, ".") /\ ~startswith(text, <<".">>)
                     THEN split_first(text, ".") ELSE text
        t1 == replace(base_name, ".", "_")
        t2 == lower(translate(t1))
        t3 == sub_special(t2)
        t5 == strip(t3, "_")
    IN  IF t5 # <<>> /\ t5[1] \in DIGITS THEN col_ \o t5 ELSE t5

\* clean_text with the digit test made before the underscores are stripped
clean_text_prefix_first(text) ==
    LET base_name == IF contains(text, ".") /\ ~startswith(text, <<".">>)
                     THEN split_first(text, ".") ELSE text
        t1 == replace(base_name, ".", "_")
        t2 == lower(translate(t1))
        t3 == sub_special(t2)
        t4 == sub_underscores(t3)
        t5 == IF t4 # <<>> /\ t4[1] \in DIGITS THEN col_ \o t4 ELSE t4
    IN  strip(t5, "_")

\* clean_text (src/main.py:207-241)
clean_text(text) ==
    LET base_name == IF contains(text, ".") /\ ~startswith(text, <<".">>)
                     THEN split_first(text, ".") ELSE text
        t1 == replace(base_name, ".", "_")
        t2 == lower(translate(t1))
        t3 == sub_special(t2)
        t4 == sub_underscores(t3)
        t5 == strip(t4, "_")
    IN  IF t5 # <<>> /\ t5[1] \in DIGITS THEN col_ \o t5 ELSE t5

\* --------------------------------------------------------- file names
dot_csv == <<".","c","s","v">>
dot_json == <<".","j","s","o","n">>
dot_xlsx == <<".","x","l","s","x">>
config_json == <<"c","o","n","f","i","g">> \o dot_json
config_template_json ==
    <<"c","o","n","f","i","g",".","t","e","m","p","l","a","t","e">> \o dot_json

\* excel_extensions (src/main.py:61)
excel_extensions ==
    << dot_xlsx, <<".","x","l","s">>, <<".","x","l","s","m">>, <<".","x","l","s","b">>,
       <<".","o","d","f">>, <<".","o","d","s">>, <<".","o","d","t">> >>

\* the entries a working directory is drawn from, the configuration files
\* apart
FileNames ==
    { <<"t">> \o dot_csv,                 \* t.csv
      <<"t">> \o dot_xlsx,                \* t.xlsx
      <<"d">> \o dot_json,                \* d.json
      <<"D",".","C","S","V">>,            \* D.CSV
      dot_csv,                            \* .csv
      <<"d",".","p","y">> }               \* d.py
ConfigNames ==
    { config_json,                        \* config.json
      <<"C">> \o Tail(config_json),       \* Config.json
      config_template_json }              \* config.template.json

NoDuplicates(s) == \A i, j \in DOMAIN s : i # j => s[i] # s[j]

\* the sequences without repetition of at most n members of S
Listings(S, n) == {l \in UNION {[1..m -> S] : m \in 0..n} : NoDuplicates(l)}

\* the test of find_data_files' loop body (src/main.py:67-80)
is_config_file(f) == lower(f) \in {config_json, config_template_json}
has_data_suffix(f) ==
    \/ endswith(f, dot_csv)
    \/ endswith(f, dot_json)
    \/ \E i \in DOMAIN excel_extensions : endswith(f, excel_extensions[i])

\* find_data_files (src/main.py:58-83), on the listing os.listdir returned
find_data_files(all_files) ==
    SelectSeq(all_files, LAMBDA f : ~is_config_file(f) /\ has_data_suffix(f))

\* os.path.splitext: the extension starts at the last dot, unless only dots
\* come before it
splitext(f) ==
    LET dots == {i \in DOMAIN f : f[i] = "."}
        last == CHOOSE i \in dots : \A j \in dots : j <= i
    IN  IF dots # {} /\ \E j \in 1..(last - 1) : f[j] # "."
        THEN [root |-> SubSeq(f, 1, last - 1), ext |-> SubSeq(f, last, Len(f))]
        ELSE [root |-> f, ext |-> <<>>]

\* -------------------------------------------------------------- dicts
DictKeys(d) == [i \in DOMAIN d |-> d[i].k]
DictHas(d, k) == \E i \in DOMAIN d : d[i].k = k
DictGet(d, k) == d[CHOOSE i \in DOMAIN d : d[i].k = k].v
\* d[k] = v: an existing key keeps its place, a new one goes last
DictSet(d, k, v) ==
    IF DictHas(d, k)
    THEN [i \in DOMAIN d |-> IF d[i].k = k THEN [k |-> k, v |-> v] ELSE d[i]]
    ELSE Append(d, [k |-> k, v |-> v])
\* d.pop(k), the dict it leaves
DictPop(d, k) == SelectSeq(d, LAMBDA e : e.k # k)

\* ------------------------------------------------------------- tables
\* A DataFrame: the object's identity (the file and the sheet it was read
\* from) and its columns, each a header and a dtype.
Table(f, sheet, cols) == [id |-> <<f, sheet>>, cols |-> cols]
Column(name, dtype) == [name |-> name, dtype |-> dtype]

\* what a reader (pd.read_csv, pd.read_excel, json.load + pd.json_normalize)
\* gives for one file: it raises, or returns the sheets it parsed
ReadError == [ok |-> FALSE, sheets |-> <<>>]
ReadSheets(sheets) == [ok |-> TRUE, sheets |-> sheets]
Sheet(name, cols) == [name |-> name, cols |-> cols]

\* the multi-sheet branch of create_df_dict (src/main.py:157-170)
RECURSIVE add_sheets(_, _, _, _)
add_sheets(df, f, sheets, j) ==
    IF j > Len(sheets) THEN df
    ELSE LET base_name == splitext(f).root
             clean_sheet_name == clean_text(sheets[j].name)
             new_key == base_name \o <<"_">> \o clean_sheet_name \o dot_xlsx
         IN  add_sheets(DictSet(df, new_key, Table(f, j, sheets[j].cols)), f, sheets, j + 1)

\* one pass of create_df_dict's loop over data_files (src/main.py:129-200);
\* reads[i] is what the reader gives for data_files[i]
load_file(acc, f, r) ==
    LET file_extension == lower(splitext(f).ext)
        failed == [acc EXCEPT !.error_count = @ + 1]
    IN  IF file_extension = dot_csv
        THEN IF r.ok THEN [acc EXCEPT !.df = DictSet(@, f, Table(f, 1, r.sheets[1].cols))]
             ELSE failed
        ELSE IF \E i \in DOMAIN excel_extensions : excel_extensions[i] = file_extension
        THEN IF ~r.ok THEN failed
             ELSE IF Len(r.sheets) = 1
             THEN [acc EXCEPT !.df = DictSet(@, f, Table(f, 1, r.sheets[1].cols))]
             ELSE [acc EXCEPT !.df = add_sheets(@, f, r.sheets, 1)]
        ELSE IF file_extension = dot_json
        THEN IF r.ok THEN [acc EXCEPT !.df = DictSet(@, f, Table(f, 1, r.sheets[1].cols))]
             ELSE failed
        ELSE failed

RECURSIVE create_df_dict_loop(_, _, _, _)
create_df_dict_loop(data_files, reads, i, acc) ==
    IF i > Len(data_files) THEN acc
    ELSE create_df_dict_loop(data_files, reads, i + 1, load_file(acc, data_files[i], reads[i]))

\* create_df_dict (src/main.py:111-203): the dict it returns and its error count
create_df_dict(data_files, reads) ==
    create_df_dict_loop(data_files, reads, 1, [df |-> <<>>, error_count |-> 0])

\* clean_file_names' loop (src/main.py:256-259); dataframe.pop(f) raises
\* KeyError when f is no key
RECURSIVE clean_file_names_loop(_, _, _)
clean_file_names_loop(data_files, i, acc) ==
    IF i > Len(data_files) \/ acc.raised THEN acc
    ELSE LET f == data_files[i]
             clean_name == clean_text(f)
         IN  IF ~DictHas(acc.dataframe, f)
             THEN [acc EXCEPT !.raised = TRUE,
                              !.cleaned_files = Append(@, clean_name)]
             ELSE clean_file_names_loop(data_files, i + 1,
                    [acc EXCEPT !.cleaned_files = Append(@, clean_name),
                                !.dataframe = DictSet(DictPop(@, f), clean_name,
                                                      DictGet(acc.dataframe, f))])

\* clean_file_names (src/main.py:245-262): the list it returns and the dict
\* it leaves
clean_file_names(data_files, dataframe) ==
    clean_file_names_loop(data_files, 1,
        [cleaned_files |-> <<>>, dataframe |-> dataframe, raised |-> FALSE])

\* -------------------------------------------- src/main.py:19-54
\* DTYPE_MAPPING, keyed by the dtype's name
DTYPE_MAPPING ==
    [d \in {"int8","int16","int32","int64","uint8","uint16","uint32","uint64",
            "float16","float32","float64","decimal",
            "datetime64[ns]","datetime64[us]","datetime64[ms]","datetime64[s]",
            "datetime64[D]","timedelta64[ns]","timedelta64[us]","timedelta64[ms]",
            "timedelta64[s]","timedelta64[D]","bool","object","string","category",
            "bytes","default"} |->
        CASE d \in {"int8","int16","uint8"} -> "SMALLINT"
          [] d \in {"int32","uint16"} -> "INTEGER"
          [] d \in {"int64","uint32","uint64"} -> "BIGINT"
          [] d \in {"float16","float32"} -> "REAL"
          [] d = "float64" -> "DOUBLE PRECISION"
          [] d = "decimal" -> "NUMERIC"
          [] d \in {"datetime64[ns]","datetime64[us]","datetime64[ms]","datetime64[s]"}
               -> "TIMESTAMP"
          [] d = "datetime64[D]" -> "DATE"
          [] d \in {"timedelta64[ns]","timedelta64[us]","timedelta64[ms]",
                    "timedelta64[s]","timedelta64[D]"} -> "INTERVAL"
          [] d = "bool" -> "BOOLEAN"
          [] d \in {"object","string","category","default"} -> "VARCHAR"
          [] d = "bytes" -> "BYTEA"]

\* Series.replace(DTYPE_MAPPING) on one dtype: a value that is no key of the
\* dict is left as it is
replace_dtype(d) == IF d \in DOMAIN DTYPE_MAPPING THEN DTYPE_MAPPING[d] ELSE d

\* sep.join(parts)
RECURSIVE join(_, _)
join(sep, parts) ==
    IF parts = <<>> THEN <<>>
    ELSE IF Len(parts) = 1 THEN parts[1]
    ELSE parts[1] \o sep \o join(sep, Tail(parts))

\* the body of process_dataframes' loop (src/main.py:278-284): the columns
\* after "df.columns = [...]" and the schema string
clean_columns(cols) == [i \in DOMAIN cols |-> Column(clean_text(cols[i].name), cols[i].dtype)]
render_schema(cols) ==
    join(<<",", " ">>,
         [i \in DOMAIN cols |-> cols[i].name \o <<" ">> \o <<replace_dtype(cols[i].dtype)>>])

RECURSIVE process_dataframes_loop(_, _, _)
process_dataframes_loop(dataframes_dict, i, acc) ==
    IF i > Len(dataframes_dict) THEN acc
    ELSE LET file_name == dataframes_dict[i].k
             df == dataframes_dict[i].v
             cleaned == [df EXCEPT !.cols = clean_columns(@)]
         IN  process_dataframes_loop(dataframes_dict, i + 1,
                [dataframes_dict |-> DictSet(acc.dataframes_dict, file_name, cleaned),
                 schemas |-> DictSet(acc.schemas, file_name, render_schema(cleaned.cols))])

\* process_dataframes (src/main.py:266-286): the schemas it returns and the
\* dict whose DataFrames it has relabelled
process_dataframes(dataframes_dict) ==
    process_dataframes_loop(dataframes_dict, 1,
        [dataframes_dict |-> dataframes_dict, schemas |-> <<>>])

\* the file names save_df_to_csv writes (src/main.py:297-304)
csv_name(clean_file_name) == clean_file_name \o dot_csv

\* ------------------------------------------------------------- inputs
\* the characters a text handed to clean_text is made of: a lower-case and
\* an upper-case letter, a digit, the dot, the underscore, a special
\* character and a Turkish letter
TextChars == {"a", "B", "7", ".", "_", "@", "U+0130"}
Texts == UNION {[1..n -> TextChars] : n \in 0..MaxLen}

\* column headers and dtypes of the tables handed to process_dataframes
ColumnNames ==
    { <<"C","o","l"," ","1">>, <<"C","o","l","_","1">>, <<"a">>, <<"a",".","1">>,
      <<"7","x">>, <<"@">> }
Dtypes == {"int64", "float64", "object", "complex128"}
ColumnLists ==
    {cols \in Listings({Column(n, d) : n \in ColumnNames, d \in Dtypes}, MaxCols) :
        NoDuplicates([i \in DOMAIN cols |-> cols[i].name])}

\* the column lists of the files read in a run of main
cols_id == << Column(<<"i","d">>, "int64") >>
cols_col == << Column(<<"C","o","l"," ","1">>, "int64"),
               Column(<<"C","o","l","_","1">>, "object") >>
MainCols == {cols_id, cols_col}

\* the sheet names of the workbooks read in a run of main
SheetLists ==
    { << <<"S"," ","1">> >>,
      << <<"S"," ","1">>, <<"S","_","1">> >>,
      << <<"S"," ","1">>, <<"x">> >> }

\* what the reader may give for file f, which is or is not in the directory
\* it is read from
ReadChoices(f, present) ==
    LET ext == lower(splitext(f).ext)
        one == {ReadSheets(<<Sheet(<<>>, c)>>) : c \in MainCols}
        book == {ReadSheets([j \in DOMAIN names |-> Sheet(names[j], c)]) :
                    names \in SheetLists, c \in MainCols}
    IN  IF ~present THEN {ReadError}
        ELSE IF ext \in {dot_csv, dot_json} THEN {ReadError} \cup one
        ELSE IF \E i \in DOMAIN excel_extensions : excel_extensions[i] = ext
        THEN {ReadError} \cup book
        ELSE {ReadError}

\* what the readers may give for a list of files read from directory dir
RECURSIVE ReadSeqs(_, _)
ReadSeqs(files, dir) ==
    IF files = <<>> THEN {<<>>}
    ELSE {<<r>> \o rest : r \in ReadChoices(Head(files), Head(files) \in dir),
                          rest \in ReadSeqs(Tail(files), dir)}

\* table names and schema strings of the mappings handed to import_to_postgres
TableNames == { <<"t">>, <<"d">>, <<"t","_","s","_","1">> }
SchemaDicts ==
    {[i \in DOMAIN keys |-> [k |-> keys[i], v |-> render_schema(clean_columns(cols_id))]] :
        keys \in Listings(TableNames, MaxTables)}

\* -------------------------------------------------------------- state
VARIABLES
    pc,               \* where main (or the function under study) stands
    calls,            \* the functions main has called, in order
    exit_status,      \* -1 while running, then the process's exit status
    all_files,        \* os.listdir(os.getcwd()) at the start
    cwd,              \* the files in the working directory
    data_dir_exists,  \* unprocessed_data exists
    unprocessed_data, \* the files in unprocessed_data
    processed_data,   \* the files in processed_data
    staged,           \* what configure_data_dir found and did
    data_files,       \* main's data_files
    df_dict,          \* main's df_dict
    loaded,           \* df_dict as create_df_dict returned it, and what was read
    error_count,      \* create_df_dict's error_count
    datasets,         \* main's datasets
    schemas,          \* main's schemas
    db_pc,            \* where import_to_postgres stands
    db_i,             \* the index of its loop over table_schema
    connections,      \* ps.connect calls that returned a connection
    commits,          \* conn.commit calls
    rollbacks,        \* conn.rollback calls
    tx_tables,        \* tables created or copied in the open transaction
    db_tables,        \* tables the database holds, committed
    raised,           \* import_to_postgres raised to its caller
    db_error,         \* the step of import_to_postgres that raised, or "none"
    text,             \* the text handed to clean_text
    cleaned,          \* clean_text(text)
    recleaned         \* clean_text(clean_text(text))

fs_vars == <<all_files, cwd, data_dir_exists, unprocessed_data, processed_data, staged>>
run_vars == <<data_files, df_dict, loaded, error_count, datasets, schemas>>
db_vars == <<db_pc, db_i, connections, commits, rollbacks, tx_tables, db_tables, raised,
            db_error>>
text_vars == <<text, cleaned, recleaned>>
vars == <<pc, calls, exit_status, fs_vars, run_vars, db_vars, text_vars>>

NoLoad == [df |-> <<>>, reads |-> <<>>, files |-> <<>>]

InitRun ==
    /\ data_files = <<>> /\ df_dict = <<>> /\ loaded = NoLoad /\ error_count = 0
    /\ datasets = <<>> /\ schemas = <<>>
InitDbVars ==
    /\ db_pc = "idle" /\ db_i = 1 /\ connections = 0 /\ commits = 0 /\ rollbacks = 0
    /\ tx_tables = {} /\ db_tables = {} /\ raised = FALSE /\ db_error = "none"
InitText == text = <<>> /\ cleaned = <<>> /\ recleaned = <<>>
\* configure_data_dir has not run: nothing made, nothing moved
NotStaged(before) == [made |-> FALSE, moved |-> {}, before |-> before]

InitFs ==
    /\ all_files = <<>> /\ cwd = {} /\ data_dir_exists = FALSE
    /\ unprocessed_data = {} /\ processed_data = {}
    /\ staged = NotStaged({})

\* ------------------------------------------------- main (381-413)
\* "except Exception: sys.exit(1)" (src/main.py:411-413)
Fail == pc' = "failed" /\ exit_status' = 1

\* the two checks left out
no_data_files_unchecked(found) == FALSE
no_dataframes_unchecked(df) == FALSE

\* "if not data_files:" (src/main.py:390) and "if not df_dict:" (396)
no_data_files(found) == found = <<>>
no_dataframes(df) == df = <<>>

\* main calls find_data_files and raises ValueError on an empty result
\* (src/main.py:389-391)
Discover ==
    /\ pc = "find_data_files"
    /\ calls' = Append(calls, "find_data_files")
    /\ data_files' = find_data_files(all_files)
    /\ IF no_data_files(data_files') THEN Fail
       ELSE pc' = "configure_data_dir" /\ exit_status' = exit_status
    /\ UNCHANGED <<fs_vars, df_dict, loaded, error_count, datasets, schemas,
                   db_vars, text_vars>>

\* configure_data_dir (src/main.py:87-108): os.makedirs may fail, and each
\* os.rename may; both are logged and swallowed.  A rename into a directory
\* that does not exist fails.
configure_data_dir ==
    /\ pc = "configure_data_dir"
    /\ calls' = Append(calls, "configure_data_dir")
    /\ \E made \in BOOLEAN, moved \in SUBSET Range(data_files) :
          /\ data_dir_exists => made
          /\ data_dir_exists' = made
          /\ ~made => moved = {}
          /\ cwd' = cwd \ moved
          /\ unprocessed_data' = unprocessed_data \cup moved
          /\ staged' = [made |-> made, moved |-> moved, before |-> unprocessed_data]
    /\ pc' = "create_df_dict"
    /\ UNCHANGED <<exit_status, all_files, processed_data, run_vars, db_vars, text_vars>>

\* the loader reading from the working directory
source_dir_cwd(staging, working) == working

\* data_path = os.path.join(os.getcwd(), data_directory) (src/main.py:122):
\* the files the loader can open are those of the staging directory
source_dir(staging, working) == staging

\* main calls create_df_dict and raises ValueError on an empty dict
\* (src/main.py:394-397); the files are read from unprocessed_data
Load ==
    /\ pc = "create_df_dict"
    /\ calls' = Append(calls, "create_df_dict")
    /\ \E reads \in ReadSeqs(data_files, source_dir(unprocessed_data, cwd)) :
          /\ LET r == create_df_dict(data_files, reads)
             IN  /\ df_dict' = r.df
                 /\ error_count' = r.error_count
                 /\ loaded' = [df |-> r.df, reads |-> reads, files |-> data_files]
    /\ IF no_dataframes(df_dict') THEN Fail
       ELSE pc' = "clean_file_names" /\ exit_status' = exit_status
    /\ UNCHANGED <<fs_vars, data_files, datasets, schemas, db_vars, text_vars>>

\* main calls clean_file_names(list(df_dict.keys()), df_dict) (src/main.py:399)
Normalize ==
    /\ pc = "clean_file_names"
    /\ calls' = Append(calls, "clean_file_names")
    /\ LET r == clean_file_names(DictKeys(df_dict), df_dict)
       IN  /\ df_dict' = r.dataframe
           /\ datasets' = r.cleaned_files
           /\ IF r.raised THEN Fail
              ELSE pc' = "process_dataframes" /\ exit_status' = exit_status
    /\ UNCHANGED <<fs_vars, data_files, loaded, error_count, schemas, db_vars, text_vars>>

\* main calls process_dataframes(df_dict) (src/main.py:400)
Schema ==
    /\ pc = "process_dataframes"
    /\ calls' = Append(calls, "process_dataframes")
    /\ LET r == process_dataframes(df_dict)
       IN  df_dict' = r.dataframes_dict /\ schemas' = r.schemas
    /\ pc' = "save_df_to_csv"
    /\ UNCHANGED <<exit_status, fs_vars, data_files, loaded, error_count, datasets,
                   db_vars, text_vars>>

\* save_df_to_csv (src/main.py:290-306): one to_csv per table, in the dict's
\* order; the first that raises ends the run, the files written before it stay
save_df_to_csv ==
    /\ pc = "save_df_to_csv"
    /\ calls' = Append(calls, "save_df_to_csv")
    /\ \E n \in 0..Len(df_dict) :
          /\ cwd' = cwd \cup {csv_name(df_dict[i].k) : i \in 1..n}
          /\ IF n < Len(df_dict) THEN Fail
             ELSE pc' = "load_config" /\ exit_status' = exit_status
    /\ UNCHANGED <<all_files, data_dir_exists, unprocessed_data, processed_data,
                   staged, run_vars, db_vars, text_vars>>

\* load_config (src/main.py:310-318): open("config.json") raises when the
\* file is not there, and json.load or config["database"] may raise
load_config ==
    /\ pc = "load_config"
    /\ calls' = Append(calls, "load_config")
    /\ \E ok \in BOOLEAN :
          IF ok /\ config_json \in cwd
          THEN pc' = "import_to_postgres" /\ exit_status' = exit_status
          ELSE Fail
    /\ UNCHANGED <<fs_vars, run_vars, db_vars, text_vars>>

\* ------------------------------------- import_to_postgres (322-355)
\* The caller's side of a raise: main's except clause exits with status 1.
ImportRaises == raised' = TRUE /\ Fail

\* ps.connect(**conn_dict) (src/main.py:329); a failure raises before the try
DbConnect ==
    /\ pc = "import_to_postgres" /\ db_pc = "idle"
    /\ calls' = Append(calls, "import_to_postgres")
    /\ \E ok \in BOOLEAN :
          IF ok
          THEN /\ connections' = connections + 1
               /\ db_pc' = "cursor"
               /\ UNCHANGED <<pc, exit_status, raised, db_error>>
          ELSE /\ db_pc' = "closed"
               /\ db_error' = "connect"
               /\ ImportRaises
               /\ UNCHANGED connections
    /\ UNCHANGED <<fs_vars, run_vars, db_i, commits, rollbacks, tx_tables, db_tables,
                   text_vars>>

\* conn.cursor() (src/main.py:330); a failure raises before the try, and
\* closing() closes the connection
DbCursor ==
    /\ pc = "import_to_postgres" /\ db_pc = "cursor"
    /\ \E ok \in BOOLEAN :
          IF ok
          THEN /\ db_pc' = IF db_i > Len(schemas) THEN "commit" ELSE "create"
               /\ UNCHANGED <<pc, exit_status, raised, db_error>>
          ELSE /\ db_pc' = "closed"
               /\ db_error' = "cursor"
               /\ ImportRaises
    /\ UNCHANGED <<calls, fs_vars, run_vars, db_i, connections, commits, rollbacks,
                   tx_tables, db_tables, text_vars>>

\* cur.execute("CREATE TABLE IF NOT EXISTS ...") (src/main.py:335-338)
DbCreateTable ==
    /\ pc = "import_to_postgres" /\ db_pc = "create"
    /\ \E ok \in BOOLEAN :
          IF ok
          THEN /\ tx_tables' = tx_tables \cup {schemas[db_i].k}
               /\ db_pc' = "open"
               /\ UNCHANGED db_error
          ELSE /\ db_pc' = "rollback"
               /\ db_error' = "create"
               /\ UNCHANGED tx_tables
    /\ UNCHANGED <<pc, calls, exit_status, fs_vars, run_vars, db_i, connections,
                   commits, rollbacks, db_tables, raised, text_vars>>

\* open(f"{file_name}.csv") (src/main.py:340): raises when the file is not
\* in the working directory, and may raise when it is
DbOpenCsv ==
    /\ pc = "import_to_postgres" /\ db_pc = "open"
    /\ \E ok \in BOOLEAN :
          IF ok /\ csv_name(schemas[db_i].k) \in cwd
          THEN db_pc' = "copy" /\ UNCHANGED db_error
          ELSE db_pc' = "rollback" /\ db_error' = "open"
    /\ UNCHANGED <<pc, calls, exit_status, fs_vars, run_vars, db_i, connections,
                   commits, rollbacks, tx_tables, db_tables, raised, text_vars>>

\* DbCopy with a failed copy skipped instead of raised
DbCopySwallowed ==
    /\ pc = "import_to_postgres" /\ db_pc = "copy"
    /\ \E ok \in BOOLEAN :
          /\ db_i' = db_i + 1
          /\ db_pc' = IF db_i + 1 > Len(schemas) THEN "commit" ELSE "create"
          /\ db_error' = IF ok THEN db_error ELSE "copy"
    /\ UNCHANGED <<pc, calls, exit_status, fs_vars, run_vars, connections,
                   commits, rollbacks, tx_tables, db_tables, raised, text_vars>>

\* cur.copy_expert(...) (src/main.py:348), then the next table or the commit
DbCopy ==
    /\ pc = "import_to_postgres" /\ db_pc = "copy"
    /\ \E ok \in BOOLEAN :
          IF ok
          THEN /\ db_i' = db_i + 1
               /\ db_pc' = IF db_i + 1 > Len(schemas) THEN "commit" ELSE "create"
               /\ UNCHANGED db_error
          ELSE /\ db_pc' = "rollback"
               /\ db_error' = "copy"
               /\ UNCHANGED db_i
    /\ UNCHANGED <<pc, calls, exit_status, fs_vars, run_vars, connections,
                   commits, rollbacks, tx_tables, db_tables, raised, text_vars>>

\* conn.commit() (src/main.py:350), inside the try: when it raises, the
\* except clause runs.  When it returns, import_to_postgres returns.
DbCommit ==
    /\ pc = "import_to_postgres" /\ db_pc = "commit"
    /\ commits' = commits + 1
    /\ \E ok \in BOOLEAN :
          IF ok
          THEN /\ db_tables' = db_tables \cup tx_tables
               /\ tx_tables' = {}
               /\ db_pc' = "closed"
               /\ pc' = "move_processed_files"
               /\ UNCHANGED db_error
          ELSE /\ db_pc' = "rollback"
               /\ db_error' = "commit"
               /\ UNCHANGED <<db_tables, tx_tables, pc>>
    /\ UNCHANGED <<calls, exit_status, fs_vars, run_vars, db_i, connections,
                   rollbacks, raised, text_vars>>

\* DbRollback without the "raise": import_to_postgres returns to main
DbRollbackSwallowed ==
    /\ pc = "import_to_postgres" /\ db_pc = "rollback"
    /\ rollbacks' = rollbacks + 1
    /\ tx_tables' = {}
    /\ db_pc' = "closed"
    /\ pc' = "move_processed_files"
    /\ UNCHANGED <<calls, exit_status, fs_vars, run_vars, db_i, connections, commits,
                   db_tables, raised, db_error, text_vars>>

\* except Exception: conn.rollback(); raise (src/main.py:352-355).  Whether
\* rollback returns or raises, an exception reaches the caller and the
\* connection is closed with nothing committed.
DbRollback ==
    /\ pc = "import_to_postgres" /\ db_pc = "rollback"
    /\ rollbacks' = rollbacks + 1
    /\ tx_tables' = {}
    /\ db_pc' = "closed"
    /\ ImportRaises
    /\ UNCHANGED <<calls, fs_vars, run_vars, db_i, connections, commits, db_tables,
                   db_error, text_vars>>

import_to_postgres ==
    \/ DbConnect \/ DbCursor \/ DbCreateTable \/ DbOpenCsv \/ DbCopy
    \/ DbCommit \/ DbRollback

\* ------------------------------------ move_processed_files (358-377)
\* the names moved before the first rename that fails: a rename fails when
\* its file is not (or no longer) in the working directory, and may fail
\* when it is
Movable(names, n) ==
    /\ n \in 0..Len(names)
    /\ \A i \in 1..n : csv_name(names[i]) \in cwd
    /\ NoDuplicates(SubSeq(names, 1, n))

move_processed_files ==
    /\ pc = "move_processed_files"
    /\ calls' = Append(calls, "move_processed_files")
    /\ \E made \in BOOLEAN, n \in 0..Len(datasets) :
          /\ Movable(datasets, n)
          /\ ~made => n = 0
          /\ cwd' = cwd \ {csv_name(datasets[i]) : i \in 1..n}
          /\ processed_data' = processed_data \cup {csv_name(datasets[i]) : i \in 1..n}
          /\ IF made /\ n = Len(datasets)
             THEN pc' = "done" /\ exit_status' = 0
             ELSE Fail
    /\ UNCHANGED <<all_files, data_dir_exists, unprocessed_data, staged, run_vars,
                   db_vars, text_vars>>

\* ---------------------------------------------------- clean_text alone
CleanText ==
    /\ pc = "clean_text"
    /\ cleaned' = clean_text(text)
    /\ pc' = "clean_text_again"
    /\ UNCHANGED <<calls, exit_status, fs_vars, run_vars, db_vars, text, recleaned>>

CleanTextAgain ==
    /\ pc = "clean_text_again"
    /\ recleaned' = clean_text(cleaned)
    /\ pc' = "cleaned_twice"
    /\ UNCHANGED <<calls, exit_status, fs_vars, run_vars, db_vars, text, cleaned>>

\* ----------------------------------------------------- specifications
\* A run of main: a working directory of at most MaxFiles entries and at
\* most one configuration file, with or without an unprocessed_data
\* directory left by an earlier run.
Init ==
    /\ pc = "find_data_files" /\ calls = <<>> /\ exit_status = -1
    /\ all_files \in {l \o c : l \in Listings(FileNames, MaxFiles),
                                c \in Listings(ConfigNames, 1)}
    /\ cwd = Range(all_files)
    /\ data_dir_exists \in BOOLEAN
    /\ unprocessed_data \in (IF data_dir_exists THEN {{}, {<<"t">> \o dot_csv}} ELSE {{}})
    /\ processed_data = {}
    /\ staged = NotStaged(unprocessed_data)
    /\ InitRun /\ InitDbVars /\ InitText

Next ==
    \/ Discover \/ configure_data_dir \/ Load \/ Normalize \/ Schema
    \/ save_df_to_csv \/ load_config \/ import_to_postgres \/ move_processed_files

Spec == Init /\ [][Next]_vars

\* clean_text on every text of at most MaxLen characters, and again on its
\* result.
InitCleanText ==
    /\ pc = "clean_text" /\ calls = <<>> /\ exit_status = -1
    /\ text \in Texts /\ cleaned = <<>> /\ recleaned = <<>>
    /\ InitFs /\ InitRun /\ InitDbVars

NextCleanText == CleanText \/ CleanTextAgain

SpecCleanText == InitCleanText /\ [][NextCleanText]_vars

\* process_dataframes on a dict of one or two tables: the first with any
\* column list of at most MaxCols columns, the second one of main's.
SchemaInputs ==
    {<<[k |-> <<"t">>, v |-> Table(<<"t">> \o dot_csv, 1, c)]>> : c \in ColumnLists}
    \cup
    {<<[k |-> <<"t">>, v |-> Table(<<"t">> \o dot_csv, 1, c)],
       [k |-> <<"d">>, v |-> Table(<<"d">> \o dot_json, 1, c2)]>> :
        c \in ColumnLists, c2 \in {<<>>, cols_col}}

InitSchema ==
    /\ pc = "process_dataframes" /\ calls = <<>> /\ exit_status = -1
    /\ df_dict \in SchemaInputs
    /\ loaded = [df |-> df_dict, reads |-> <<>>, files |-> <<>>]
    /\ data_files = <<>> /\ error_count = 0 /\ datasets = DictKeys(df_dict)
    /\ schemas = <<>>
    /\ InitFs /\ InitDbVars /\ InitText

NextSchema == Schema

SpecSchema == InitSchema /\ [][NextSchema]_vars

\* import_to_postgres on every schema mapping of at most MaxTables tables,
\* with any of their CSV files present or missing.
InitImport ==
    /\ pc = "import_to_postgres" /\ calls = <<>> /\ exit_status = -1
    /\ schemas \in SchemaDicts
    /\ datasets = DictKeys(schemas)
    /\ cwd \in SUBSET {csv_name(n) : n \in TableNames}
    /\ all_files = <<>> /\ data_dir_exists = FALSE
    /\ unprocessed_data = {} /\ processed_data = {}
    /\ staged = NotStaged({})
    /\ data_files = <<>> /\ df_dict = <<>> /\ loaded = NoLoad /\ error_count = 0
    /\ InitDbVars /\ InitText

NextImport == import_to_postgres

SpecImport == InitImport /\ [][NextImport]_vars

\* create_df_dict on every list of at most MaxFiles files, each present in
\* or missing from the directory it is read from; among them a workbook named
\* like a sheet key of another and a file of an unsupported type.
LoadNames == FileNames \cup { <<"t","_","s","_","1">> \o dot_xlsx }   \* t_s_1.xlsx

InitLoad ==
    /\ pc = "create_df_dict" /\ calls = <<>> /\ exit_status = -1
    /\ data_files \in Listings(LoadNames, MaxFiles)
    /\ unprocessed_data \in SUBSET Range(data_files)
    /\ all_files = <<>> /\ cwd = {} /\ data_dir_exists = TRUE /\ processed_data = {}
    /\ staged = [made |-> TRUE, moved |-> unprocessed_data, before |-> {}]
    /\ df_dict = <<>> /\ loaded = NoLoad /\ error_count = 0
    /\ datasets = <<>> /\ schemas = <<>>
    /\ InitDbVars /\ InitText

NextLoad == Load

SpecLoad == InitLoad /\ [][NextLoad]_vars

\* ------------------------------------------------------------- claims
LoopSteps == {"create", "open", "copy"}

\* C1, as stated: once import_to_postgres has ended, if no CREATE TABLE, open
\* or COPY raised then commit was called once and rollback never; if one of
\* them raised then commit was never called, rollback was called once, the
\* error reached the caller and the database holds no table of this call.
C1_AsStated ==
    (db_pc = "closed" /\ db_error \notin {"connect", "cursor"}) =>
        /\ db_error \notin LoopSteps => (commits = 1 /\ rollbacks = 0)
        /\ db_error \in LoopSteps =>
              (commits = 0 /\ rollbacks = 1 /\ raised /\ db_tables = {})

\* C1, amended: commit and rollback are each called at most once; a step of
\* the loop that raised means commit is never called; and once
\* import_to_postgres has ended: with every step and the commit itself
\* successful, one commit, no rollback, no error and every table of the mapping
\* committed; with a loop step raised, no commit, one rollback, the error
\* raised to the caller and no table committed; with the commit itself raised,
\* one commit, one rollback and the error raised to the caller.
C1_CommitOnceOrRollback ==
    /\ commits <= 1 /\ rollbacks <= 1
    /\ db_error \in LoopSteps => commits = 0
    /\ db_pc = "closed" =>
          /\ db_error = "none" =>
                /\ commits = 1 /\ rollbacks = 0 /\ ~raised
                /\ db_tables = Range(DictKeys(schemas))
          /\ db_error \in LoopSteps =>
                commits = 0 /\ rollbacks = 1 /\ raised /\ db_tables = {}
          /\ db_error = "commit" => commits = 1 /\ rollbacks = 1 /\ raised

\* C1's case: the copy of the second of two tables raised, after the first
\* was created and copied, and the call has ended.
C1_Witness ==
    /\ db_pc = "closed" /\ db_error = "copy"
    /\ Len(schemas) = 2 /\ db_i = 2
    /\ rollbacks = 1 /\ raised

\* C2: once find_data_files has returned an empty list, the run has failed
\* with exit status 1 and find_data_files is the only function main called:
\* nothing was moved, loaded, written or sent to the database.
C2_NoFilesExitsBeforeStaging ==
    (pc # "find_data_files" /\ data_files = <<>>) =>
        /\ pc = "failed" /\ exit_status = 1
        /\ calls = <<"find_data_files">>
        /\ cwd = Range(all_files) /\ loaded = NoLoad /\ df_dict = <<>>
        /\ datasets = <<>> /\ schemas = <<>> /\ connections = 0
        /\ processed_data = {}

\* C2's case: a directory that is not empty and holds no data file.
C2_Witness ==
    /\ pc = "failed" /\ data_files = <<>>
    /\ calls = <<"find_data_files">> /\ Len(all_files) = 2

\* C3: once create_df_dict has returned an empty dict for a list of files
\* that is not empty, the run has failed with exit status 1 after exactly
\* find_data_files, configure_data_dir and create_df_dict: no schema was
\* derived, no CSV written, no connection opened and nothing archived.
C3_NoTablesExitsBeforeSchema ==
    (loaded.files # <<>> /\ loaded.df = <<>>) =>
        /\ pc = "failed" /\ exit_status = 1
        /\ calls = <<"find_data_files", "configure_data_dir", "create_df_dict">>
        /\ datasets = <<>> /\ schemas = <<>>
        /\ connections = 0 /\ db_pc = "idle" /\ commits = 0
        /\ processed_data = {}
        /\ \A f \in cwd : f \in Range(all_files)

\* C3's case: two files were discovered and both failed to load.
C3_Witness ==
    /\ pc = "failed" /\ Len(loaded.files) = 2 /\ loaded.df = <<>>
    /\ error_count = 2

\* the identifiers clean_text is to return: lower-case letters, digits and
\* single underscores, not at either end, and no digit first
WellFormed(s) ==
    /\ Range(s) \subseteq Range(LOWER) \cup DIGITS \cup {"_"}
    /\ "." \notin Range(s)
    /\ \A i \in 1..(Len(s) - 1) : ~(s[i] = "_" /\ s[i + 1] = "_")
    /\ s # <<>> => (s[1] \notin DIGITS /\ s[1] # "_" /\ s[Len(s)] # "_")

\* C4: clean_text returns a well-formed identifier for every text, and the
\* empty text for the empty text.
C4_CleanTextWellFormed ==
    pc \in {"clean_text_again", "cleaned_twice"} =>
        /\ WellFormed(cleaned)
        /\ text = <<>> => cleaned = <<>>

\* C4's case: a text with a leading underscore, a digit, a special character
\* and an upper-case letter has been cleaned to col_7_b.
C4_Witness ==
    /\ pc = "clean_text_again"
    /\ text = <<"_", "7", "@", "B">>
    /\ cleaned = <<"c","o","l","_","7","_","b">>

\* C5: clean_text applied to its own result gives that result again.
C5_CleanTextIdempotent == pc = "cleaned_twice" => recleaned = cleaned

\* C5's case: a result that received the col_ prefix has been cleaned again.
C5_Witness ==
    /\ pc = "cleaned_twice"
    /\ text = <<"7", ".", "a">>
    /\ cleaned = <<"c","o","l","_","7">>
    /\ recleaned = cleaned

\* the extensions the claim lists
ClaimedExtensions == {dot_csv, dot_json} \cup Range(excel_extensions)

\* C6, as stated: find_data_files returns exactly the entries whose name, in
\* lower case, is neither config.json nor config.template.json and ends with
\* one of the listed extensions.
C6_AsStated ==
    pc # "find_data_files" =>
        Range(data_files) =
            {f \in Range(all_files) :
                /\ lower(f) \notin {config_json, config_template_json}
                /\ \E ext \in ClaimedExtensions : endswith(lower(f), ext)}

\* the entries of a rendered schema string: its parts between ", "
RECURSIVE schema_entries(_)
schema_entries(s) ==
    LET cuts == {i \in 1..(Len(s) - 1) : s[i] = "," /\ s[i + 1] = " "}
        cut == CHOOSE i \in cuts : \A j \in cuts : i <= j
    IN  IF s = <<>> THEN <<>>
        ELSE IF cuts = {} THEN <<s>>
        ELSE <<SubSeq(s, 1, cut - 1)>> \o schema_entries(SubSeq(s, cut + 2, Len(s)))

\* the SQL type DTYPE_MAPPING gives a dtype, "default" standing for the
\* dtypes it does not name
sql_type(d) == IF d \in DOMAIN DTYPE_MAPPING THEN DTYPE_MAPPING[d] ELSE DTYPE_MAPPING["default"]

\* the table as create_df_dict loaded it (or as the dict was handed over)
Original(table) ==
    loaded.df[CHOOSE i \in DOMAIN loaded.df : loaded.df[i].v.id = table.id].v

\* C7, as stated: after process_dataframes the schemas have the keys of the
\* dict, in its order, and the schema of each table has one entry per column,
\* in column order, made of clean_text of the column's header, a space and
\* the SQL type DTYPE_MAPPING gives the column's dtype; a table without
\* columns has the empty schema.
C7_AsStated ==
    pc = "save_df_to_csv" =>
        /\ DictKeys(schemas) = DictKeys(df_dict)
        /\ \A t \in DOMAIN df_dict :
              LET cols == Original(df_dict[t].v).cols
                  entries == schema_entries(schemas[t].v)
              IN  /\ Len(entries) = Len(cols)
                  /\ \A c \in DOMAIN cols :
                        entries[c] = clean_text(cols[c].name) \o <<" ", sql_type(cols[c].dtype)>>
                  /\ cols = <<>> => schemas[t].v = <<>>

\* the sheets read from a workbook with more than one sheet
Workbooks ==
    {i \in DOMAIN loaded.files :
        /\ \E e \in DOMAIN excel_extensions :
              excel_extensions[e] = lower(splitext(loaded.files[i]).ext)
        /\ loaded.reads[i].ok /\ Len(loaded.reads[i].sheets) > 1}
sheet_key(f, name) == splitext(f).root \o <<"_">> \o clean_text(name) \o dot_xlsx

\* C8, as stated: for a workbook with more than one sheet, the dict
\* create_df_dict returned holds as many tables of that workbook as it has
\* sheets, each sheet's under '{base}_{clean_text(sheet)}.xlsx'; and after
\* clean_file_names each sheet's table is in the dict under that key without
\* its '.xlsx'.
C8_AsStated ==
    \A i \in Workbooks :
        LET f == loaded.files[i]
            sheets == loaded.reads[i].sheets
        IN  /\ Cardinality({e \in DOMAIN loaded.df : loaded.df[e].v.id[1] = f}) = Len(sheets)
            /\ \A j \in DOMAIN sheets :
                  /\ DictHas(loaded.df, sheet_key(f, sheets[j].name))
                  /\ DictGet(loaded.df, sheet_key(f, sheets[j].name)).id = <<f, j>>
            /\ pc = "process_dataframes" =>
                  \A j \in DOMAIN sheets :
                      LET key == sheet_key(f, sheets[j].name)
                          stripped == SubSeq(key, 1, Len(key) - Len(dot_xlsx))
                      IN  /\ DictHas(df_dict, stripped)
                          /\ DictGet(df_dict, stripped).id = <<f, j>>

\* C9, as stated: after process_dataframes, a table whose headers were
\* pairwise distinct has pairwise distinct headers.
C9_AsStated ==
    pc = "save_df_to_csv" =>
        \A t \in DOMAIN df_dict :
            LET before == Original(df_dict[t].v).cols
                after == df_dict[t].v.cols
            IN  NoDuplicates([c \in DOMAIN before |-> before[c].name])
                    => NoDuplicates([c \in DOMAIN after |-> after[c].name])

\* C10, as stated: after clean_file_names(list(df_dict.keys()), df_dict) the
\* dict has as many entries as before, each table unchanged under clean_text
\* of its key, no key it had before, and the list returned is the cleaned
\* keys in order.
C10_AsStated ==
    pc = "process_dataframes" =>
        /\ Len(df_dict) = Len(loaded.df)
        /\ \A e \in DOMAIN loaded.df :
              /\ DictHas(df_dict, clean_text(loaded.df[e].k))
              /\ DictGet(df_dict, clean_text(loaded.df[e].k)) = loaded.df[e].v
              /\ ~DictHas(df_dict, loaded.df[e].k)
        /\ datasets = [e \in DOMAIN loaded.df |-> clean_text(loaded.df[e].k)]

\* the files of the list create_df_dict was given that failed: the reader
\* raised (unreadable or malformed) or the extension is not supported
FailedFiles == {i \in DOMAIN loaded.files : ~loaded.reads[i].ok}
TablesOf(f) == {e \in DOMAIN loaded.df : loaded.df[e].v.id[1] = f}

\* C11, as stated: once create_df_dict has returned, its error count is the
\* number of files that failed, the dict holds a table of every file that did
\* not fail and no table of a file that failed.
C11_AsStated ==
    pc # "create_df_dict" =>
        /\ error_count = Cardinality(FailedFiles)
        /\ \A i \in DOMAIN loaded.files :
              IF i \in FailedFiles THEN TablesOf(loaded.files[i]) = {}
              ELSE TablesOf(loaded.files[i]) # {}

\* C11 without the part that fails: the error count, and no table of a file
\* that failed.
C11_ErrorsCounted ==
    pc # "create_df_dict" =>
        /\ error_count = Cardinality(FailedFiles)
        /\ \A i \in FailedFiles : TablesOf(loaded.files[i]) = {}

\* the functions main calls, in the order of its body (src/main.py:389-408):
\* one per stage DISCOVER, STAGE, LOAD, NORMALIZE, SCHEMA, SERIALIZE, then
\* load_config and import_to_postgres for DB_LOAD, then ARCHIVE
StageOrder ==
    <<"find_data_files", "configure_data_dir", "create_df_dict", "clean_file_names",
      "process_dataframes", "save_df_to_csv", "load_config", "import_to_postgres",
      "move_processed_files">>
IsPrefix(s, t) == Len(s) <= Len(t) /\ SubSeq(t, 1, Len(s)) = s

\* C12: every step of a run of main starts from a run that has neither failed
\* nor finished (after FAILED or DONE nothing runs), and leaves the functions
\* called so far a prefix of the stage order (each stage at most once, in
\* order); a run that has failed has exit status 1 and only a failed run has;
\* a CSV is in processed_data only if this run's transaction was committed
\* with no error; and a run that is DONE has called every stage, with exit
\* status 0.
C12_StagesInOrder ==
    [][ /\ pc \notin {"failed", "done"}
        /\ IsPrefix(calls', StageOrder)
        /\ (pc' = "failed") = (exit_status' = 1)
        /\ processed_data' # {} =>
              (commits' = 1 /\ db_error' = "none" /\ db_pc' = "closed"
               /\ db_tables' = Range(DictKeys(schemas')))
        /\ pc' = "done" => (calls' = StageOrder /\ exit_status' = 0)
      ]_vars

\* C12's case: a run that loaded two tables is DONE, both CSVs archived.
C12_Witness ==
    /\ pc = "done" /\ calls = StageOrder
    /\ Len(datasets) = 2 /\ Cardinality(processed_data) = 2
    /\ commits = 1

\* C13, as stated: when main is about to call move_processed_files, the list
\* it hands over has no duplicates and is the key set of the schemas that
\* import_to_postgres committed, and each name's CSV is in the working
\* directory, written by save_df_to_csv.
C13_AsStated ==
    pc = "move_processed_files" =>
        /\ NoDuplicates(datasets)
        /\ Range(datasets) = Range(DictKeys(schemas))
        /\ db_tables = Range(DictKeys(schemas))
        /\ \A i \in DOMAIN datasets : csv_name(datasets[i]) \in cwd

\* C13 without the part that fails: the names handed over are, as a set, the
\* keys of the committed schemas, and each name's CSV is there.
C13_SameKeySet ==
    pc = "move_processed_files" =>
        /\ Range(datasets) = Range(DictKeys(schemas))
        /\ db_tables = Range(DictKeys(schemas))
        /\ \A i \in DOMAIN datasets : csv_name(datasets[i]) \in cwd

\* the discovered files that configure_data_dir did not move
NotMoved == Range(data_files) \ staged.moved
Loaded == "create_df_dict" \in Range(calls)
NothingStaged == ~staged.made \/ staged.moved = {}
EndsBeforeDatabase ==
    /\ pc = "failed" /\ exit_status = 1 /\ connections = 0
    /\ calls = SubSeq(StageOrder, 1, 3)

\* C14, as stated: once the loader has run, a discovered file whose move
\* failed has no table; and when the staging directory held none of the
\* discovered names and the directory was not made or no file was moved, the
\* run has ended with status 1 after create_df_dict, with no connection.
C14_AsStated ==
    Loaded =>
        /\ \A f \in NotMoved : TablesOf(f) = {}
        /\ (staged.before \cap Range(data_files) = {} /\ NothingStaged)
              => EndsBeforeDatabase

\* C14, of a run that starts with none of the discovered names in the
\* staging directory: once the loader has run, a discovered file whose move
\* failed has no table, and when the directory was not made or no file was
\* moved the run has ended with status 1 after create_df_dict, with no
\* connection.
C14_NoTableUnlessStaged ==
    (Loaded /\ staged.before \cap Range(data_files) = {}) =>
        /\ \A f \in NotMoved : TablesOf(f) = {}
        /\ NothingStaged => EndsBeforeDatabase

\* two files discovered, the directory could not be made, the run has ended
C14_Witness ==
    /\ Loaded /\ Len(data_files) = 2 /\ ~staged.made
    /\ staged.before \cap Range(data_files) = {}
    /\ EndsBeforeDatabase /\ error_count = 2

\* one of two files was moved, and only that one has a table
C14_WitnessPartial ==
    /\ Loaded /\ staged.before = {} /\ Cardinality(NotMoved) = 1
    /\ Cardinality(staged.moved) = 1 /\ Len(df_dict) >= 1 /\ pc = "done"

====
